---- MODULE Spec2Model ----
(***************************************************************************)
(* A model of main.py of mypyqrcode: the command-line entry point main,    *)
(* the render pipeline generate_qr_with_logo, the logo compositor          *)
(* overlay_logo_on_qr and the colour parser parse_color.                   *)
(*                                                                         *)
(* Three specifications share the variables:                               *)
(*   Spec         one run of main (which runs generate_qr_with_logo, which *)
(*                runs overlay_logo_on_qr when a logo is given);           *)
(*   SpecOverlay  a direct call of overlay_logo_on_qr on a small canvas,   *)
(*                so that pixels can be enumerated;                        *)
(*   SpecColor    parse_color applied to every string over a small         *)
(*                alphabet.                                                *)
(* Strings are sequences of one-character strings.  An image is a record   *)
(* [w, h, base, ops]: its size, the pattern the modules were drawn in and  *)
(* the drawing operations applied since, in order; Pixel reads a pixel     *)
(* back.  Images live in a heap indexed by reference, as Python objects    *)
(* do, so that drawing through one name is seen through every alias.       *)
(***************************************************************************)
EXTENDS Integers, Sequences, FiniteSets, TLC

VARIABLES
    pc,             \* control location
    caller,         \* who made the running call: "main", "api" or "direct"
    args,           \* the arguments of the running call
    files,          \* the image files that exist, by path
    box_size,       \* generate_qr_with_logo: box_size
    version,        \* the symbol version qr.make(fit=True) settled on
    module_drawer,  \* generate_qr_with_logo: module_drawer
    color_rgb,      \* generate_qr_with_logo: color_rgb
    color_mask,     \* generate_qr_with_logo: color_mask
    heap,           \* image objects by reference
    img,            \* generate_qr_with_logo: img (a reference)
    qr_img,         \* overlay_logo_on_qr: qr_img (a reference)
    qr_with_logo,   \* overlay_logo_on_qr: qr_with_logo (a reference)
    logo,           \* overlay_logo_on_qr: logo (the opened image)
    logo_size,      \* overlay_logo_on_qr: logo_size
    pos,            \* overlay_logo_on_qr: (x, y)
    qr_img0,        \* history: the canvas as it was handed to overlay_logo_on_qr
    trace,          \* history: the render steps completed, in order
    error,          \* the exception in flight or caught, "none" if none
    output_file,    \* what is at output_path
    stdout,         \* what was printed on standard output
    stderr,         \* what was printed on the error stream
    exit_code,      \* the process exit code, NotExited while running
    color_str,      \* SpecColor: the input of parse_color
    color_res       \* SpecColor: the result of parse_color

genVars == <<box_size, version, module_drawer, color_rgb, color_mask, img>>
ovVars == <<qr_img, qr_with_logo, logo, logo_size, pos, qr_img0>>
ioVars == <<output_file, stdout, stderr, exit_code>>
colorVars == <<color_str, color_res>>
vars == <<pc, caller, args, files, genVars, heap, ovVars, trace, error, ioVars, colorVars>>

None == "None"
NotExited == 0 - 1

(***************************************************************************)
(* Bounds of the model.                                                    *)
(***************************************************************************)
\* longest colour body (the part after the optional prefix) in SpecColor
MaxColorLen == 6
\* largest symbol version the encoder may settle on in Spec
MaxVersion == 2
\* canvas sides in SpecOverlay range over MaxCanvas - 8 .. MaxCanvas
MaxCanvas == 20
\* logo sides in SpecOverlay range over 1..MaxLogo
MaxLogo == 4
\* logo gaps in SpecOverlay range over 0..MaxGap
MaxGap == 2

(***************************************************************************)
(* parse_color                                                             *)
(***************************************************************************)
HexValue ==
    [c \in {"0","1","2","3","4","5","6","7","8","9",
            "a","b","c","d","e","f","A","B","C","D","E","F"} |->
        CASE c = "0" -> 0 [] c = "1" -> 1 [] c = "2" -> 2 [] c = "3" -> 3
          [] c = "4" -> 4 [] c = "5" -> 5 [] c = "6" -> 6 [] c = "7" -> 7
          [] c = "8" -> 8 [] c = "9" -> 9
          [] c \in {"a", "A"} -> 10 [] c \in {"b", "B"} -> 11
          [] c \in {"c", "C"} -> 12 [] c \in {"d", "D"} -> 13
          [] c \in {"e", "E"} -> 14 [] c \in {"f", "F"} -> 15]

IsHexDigit(c) == c \in DOMAIN HexValue

\* s[i:j] of Python for 0 <= i <= j: the indices are clamped to the length.
Slice(s, i, j) ==
    LET lo == IF i > Len(s) THEN Len(s) ELSE i
        hi == IF j > Len(s) THEN Len(s) ELSE j
    IN  IF lo >= hi THEN <<>> ELSE SubSeq(s, lo + 1, hi)

RECURSIVE LStrip(_)
LStrip(s) == IF s # <<>> /\ Head(s) = " " THEN LStrip(Tail(s)) ELSE s

RECURSIVE RStrip(_)
RStrip(s) ==
    IF s # <<>> /\ s[Len(s)] = " " THEN RStrip(SubSeq(s, 1, Len(s) - 1)) ELSE s

RECURSIVE DigitsValue(_)
DigitsValue(s) ==
    IF s = <<>> THEN 0
    ELSE 16 * DigitsValue(SubSeq(s, 1, Len(s) - 1)) + HexValue[s[Len(s)]]

\* int(s, 16) of Python, for the slices parse_color hands it (at most two
\* characters, so a base prefix "0x" or a digit separator "_" never parses):
\* surrounding whitespace is stripped, one sign is accepted, and what is
\* left must be one or more hexadecimal digits.
PyIntHex(s) ==
    LET t == RStrip(LStrip(s))
        signed == t # <<>> /\ Head(t) \in {"+", "-"}
        d == IF signed THEN Tail(t) ELSE t
    IN  IF d # <<>> /\ \A k \in 1..Len(d) : IsHexDigit(d[k])
        THEN [ok |-> TRUE,
              val |-> IF signed /\ Head(t) = "-" THEN 0 - DigitsValue(d)
                      ELSE DigitsValue(d)]
        ELSE [ok |-> FALSE, val |-> 0]

\* parse_color without the removal of the leading '#'
parse_color_keep_hash(s) ==
    LET r == PyIntHex(Slice(s, 0, 2))
        g == PyIntHex(Slice(s, 2, 4))
        b == PyIntHex(Slice(s, 4, 6))
    IN  IF r.ok /\ g.ok /\ b.ok
        THEN [ok |-> TRUE, rgb |-> <<r.val, g.val, b.val>>]
        ELSE [ok |-> FALSE, rgb |-> <<>>]

parse_color(s) ==
    LET t == IF s # <<>> /\ Head(s) = "#" THEN Tail(s) ELSE s
        r == PyIntHex(Slice(t, 0, 2))
        g == PyIntHex(Slice(t, 2, 4))
        b == PyIntHex(Slice(t, 4, 6))
    IN  IF r.ok /\ g.ok /\ b.ok
        THEN [ok |-> TRUE, rgb |-> <<r.val, g.val, b.val>>]
        ELSE [ok |-> FALSE, rgb |-> <<>>]

(***************************************************************************)
(* SpecColor: parse_color on every string of ColorStrings.                 *)
(***************************************************************************)
ColorAlphabet == {"0", "A", "F", "a", "G"}

ColorBodies ==
    UNION {[1..n -> ColorAlphabet] : n \in 0..MaxColorLen}

ColorPrefixes == {<<>>, <<"#">>, <<"#", "#">>}

ColorStrings == {p \o b : p \in ColorPrefixes, b \in ColorBodies}

Unset == [ok |-> FALSE, rgb |-> <<"unset">>]

(***************************************************************************)
(* Images                                                                  *)
(***************************************************************************)
Min(a, b) == IF a <= b THEN a ELSE b
Max(a, b) == IF a >= b THEN a ELSE b
Abs(a) == IF a >= 0 THEN a ELSE 0 - a

White == <<255, 255, 255>>
Black == <<0, 0, 0>>

\* The colour of pixel (i, j) of the freshly rendered canvas: "module" where
\* a dark module was drawn, "white" (the back colour) elsewhere.
BasePixel(base, i, j) ==
    CASE base = "dark" -> "module"
      [] base = "checker" -> IF (i + j) % 2 = 0 THEN "module" ELSE "white"

\* Whether pixel (i, j) of a logo is opaque.  Only an RGBA logo has
\* transparent pixels; they are taken to lie on the odd diagonals.
LogoOpaque(mode, i, j) == mode # "RGBA" \/ (i + j) % 2 = 0

\* ImageDraw.rectangle(box, fill="white"): both corners are inside the box.
RectOp(box) ==
    [kind |-> "rect", x0 |-> box[1], y0 |-> box[2], x1 |-> box[3], y1 |-> box[4],
     mode |-> "fill"]

\* Image.paste(logo, (x, y)[, logo]): the logo's own alpha is the mask when
\* its mode is RGBA.
PasteOp(lg, p) ==
    [kind |-> "paste", x0 |-> p[1], y0 |-> p[2],
     x1 |-> p[1] + lg.w - 1, y1 |-> p[2] + lg.h - 1, mode |-> lg.mode]

Covers(op, i, j) == op.x0 <= i /\ i <= op.x1 /\ op.y0 <= j /\ j <= op.y1

RECURSIVE PixelAfter(_, _, _, _)
PixelAfter(im, n, i, j) ==
    IF n = 0 THEN BasePixel(im.base, i, j)
    ELSE LET op == im.ops[n] IN
         IF op.kind = "rect" /\ Covers(op, i, j) THEN "white"
         ELSE IF op.kind = "paste" /\ Covers(op, i, j)
                 /\ LogoOpaque(op.mode, i - op.x0, j - op.y0) THEN "logo"
         ELSE PixelAfter(im, n - 1, i, j)

\* The colour of pixel (i, j), 0 <= i < im.w and 0 <= j < im.h.
Pixel(im, i, j) == PixelAfter(im, Len(im.ops), i, j)

Draw(im, op) == [im EXCEPT !.ops = Append(@, op)]

(***************************************************************************)
(* overlay_logo_on_qr: the computations                                    *)
(***************************************************************************)
LogoDivisor == 4

LogoBox(qr_width, qr_height, logo_gap) ==
    LET size == Min(qr_width, qr_height) \div LogoDivisor
    IN  IF logo_gap > 0 THEN size - (logo_gap * 2) ELSE size

CeilDiv(p, q) == IF p % q = 0 THEN p \div q ELSE p \div q + 1

\* max(min(floor, ceil, key=key), 1) of Image.thumbnail: of the two
\* candidates f <= c the one whose key is smaller, f on a tie, and at least 1
RoundAspect(f, c, keyF, keyC) == Max(IF keyF <= keyC THEN f ELSE c, 1)

\* logo.thumbnail((box, box)) for box > 0: the size after the call.  The
\* logo is never enlarged; otherwise the longer side becomes box and the
\* other is box times the aspect ratio rounded down or up, whichever keeps
\* the aspect ratio closer to the original (the keys below are those
\* distances, brought to a common denominator), and at least 1.
ThumbnailSize(w, h, box) ==
    IF box >= w /\ box >= h THEN <<w, h>>
    ELSE IF w <= h
    THEN LET f == (box * w) \div h
             c == CeilDiv(box * w, h)
         IN  <<RoundAspect(f, c, Abs(w * box - f * h), Abs(w * box - c * h)), box>>
    ELSE LET f == (box * h) \div w
             c == CeilDiv(box * h, w)
             keyF == IF f = 0 THEN 0 ELSE Abs(w * f - box * h) * c
             keyC == Abs(w * c - box * h) * (IF f = 0 THEN 1 ELSE f)
         IN  <<box, RoundAspect(f, c, keyF, keyC)>>

Centre(qr_width, qr_height, logo_width, logo_height) ==
    <<(qr_width - logo_width) \div 2, (qr_height - logo_height) \div 2>>

\* border_rect without the gap: the box of the logo itself
BorderRectOfLogo(p, logo_width, logo_height, logo_gap) ==
    <<p[1], p[2], p[1] + logo_width, p[2] + logo_height>>

BorderRect(p, logo_width, logo_height, logo_gap) ==
    <<p[1] - logo_gap, p[2] - logo_gap,
      p[1] + logo_width + logo_gap, p[2] + logo_height + logo_gap>>

(***************************************************************************)
(* Values before anything is assigned                                      *)
(***************************************************************************)
NoImage == [w |-> 0, h |-> 0, base |-> None, ops |-> <<>>]
NoLogo == [w |-> 0, h |-> 0, mode |-> None]
NoDrawer == [cls |-> None, radius_ratio |-> None]
NoMask == [cls |-> None, back_color |-> <<>>, start |-> None, start_color |-> <<>>,
           end |-> None, end_color |-> <<>>]
NoArgs == [logo_path |-> None, logo_gap |-> 0, style |-> None,
           gradient_type |-> None, gradient_color |-> <<>>, size |-> None]
NoFiles == <<>>

Refs == {"canvas", "copy"}

(***************************************************************************)
(* Inputs                                                                  *)
(***************************************************************************)
Styles == {"circle", "gapped", "horizontal", "rounded", "square", "vertical"}
GradientTypes == {"radial", "square", "horizontal", "vertical"}
Sizes == {"normal", "large", "xlarge"}

\* "#FF00AA", "#000000", "ZZZZZZ", "#12", "12345", "#FF00AA0", "+1+2+3"
GradientColors ==
    { <<"#", "F", "F", "0", "0", "A", "A">>,
      <<"#", "0", "0", "0", "0", "0", "0">>,
      <<"Z", "Z", "Z", "Z", "Z", "Z">>,
      <<"#", "1", "2">>,
      <<"1", "2", "3", "4", "5">>,
      <<"#", "F", "F", "0", "0", "A", "A", "0">>,
      <<"+", "1", "+", "2", "+", "3">> }

LogoPaths == {None, "", "missing.png", "logo.png"}
Gaps == {0, 6, 40}

\* What the command line can hand to generate_qr_with_logo: argparse has
\* checked --style, --gradient-type and --size against their choices.
CliArgs ==
    [logo_path : LogoPaths, logo_gap : Gaps, style : Styles,
     gradient_type : GradientTypes, gradient_color : GradientColors, size : Sizes]

\* What a caller of generate_qr_with_logo can hand to it.
ApiArgs ==
    [logo_path : LogoPaths, logo_gap : Gaps, style : Styles \cup {"hexagon"},
     gradient_type : GradientTypes \cup {"conic"},
     gradient_color : GradientColors, size : Sizes \cup {"huge"}]

PipelineFiles == "logo.png" :> [w |-> 400, h |-> 200, mode |-> "RGBA"]

CanvasSides == (MaxCanvas - 8)..MaxCanvas
Bases == {"dark", "checker"}
SmallLogos == [w : 1..MaxLogo, h : 1..MaxLogo, mode : {"RGB", "RGBA"}]
SmallCanvases == [w : CanvasSides, h : CanvasSides, base : Bases, ops : {<<>>}]

(***************************************************************************)
(* Initial states                                                          *)
(***************************************************************************)
InitCommon ==
    /\ pc = "start"
    /\ caller = None
    /\ args = NoArgs
    /\ box_size = 0
    /\ version = 0
    /\ module_drawer = NoDrawer
    /\ color_rgb = <<>>
    /\ color_mask = NoMask
    /\ heap = [r \in Refs |-> NoImage]
    /\ img = None
    /\ qr_img = None
    /\ qr_with_logo = None
    /\ logo = NoLogo
    /\ logo_size = 0
    /\ pos = <<0, 0>>
    /\ qr_img0 = NoImage
    /\ trace = <<>>
    /\ error = "none"
    /\ output_file = [state |-> "absent", image |-> NoImage]
    /\ stdout = <<>>
    /\ stderr = <<>>
    /\ exit_code = NotExited
    /\ color_res = Unset

Init ==
    /\ InitCommon
    /\ files = PipelineFiles
    /\ color_str = <<>>

InitOverlay ==
    /\ InitCommon
    /\ files \in {NoFiles} \cup {"logo.png" :> l : l \in SmallLogos}
    /\ color_str = <<>>

InitColor ==
    /\ InitCommon
    /\ files = NoFiles
    /\ color_str \in ColorStrings

(***************************************************************************)
(* Exceptions: where control goes when the running call raises             *)
(***************************************************************************)
Handler ==
    CASE caller = "main" -> "main_except"
      [] caller = "api" -> "api_raised"
      [] caller = "direct" -> "ov_raised"

Raise(e) ==
    /\ error' = e
    /\ pc' = Handler

(***************************************************************************)
(* generate_qr_with_logo: the lookups                                      *)
(***************************************************************************)
Border == 4

\* size_map.get(size, 10)
BoxSize(size) ==
    CASE size = "normal" -> 10
      [] size = "large" -> 15
      [] size = "xlarge" -> 20
      [] OTHER -> 10

\* RoundedModuleDrawer() called without a radius_ratio takes the default of
\* the qrcode library, which is 1.
DefaultRadiusRatio == "1"

Drawer(cls, ratio) == [cls |-> cls, radius_ratio |-> ratio]

\* style_map.get(style, RoundedModuleDrawer())
StyleDrawer(style) ==
    CASE style = "circle" -> Drawer("CircleModuleDrawer", None)
      [] style = "gapped" -> Drawer("GappedSquareModuleDrawer", None)
      [] style = "horizontal" -> Drawer("HorizontalBarsDrawer", None)
      [] style = "rounded" -> Drawer("RoundedModuleDrawer", "0.5")
      [] style = "square" -> Drawer("SquareModuleDrawer", None)
      [] style = "vertical" -> Drawer("VerticalBarsDrawer", None)
      [] OTHER -> Drawer("RoundedModuleDrawer", DefaultRadiusRatio)

\* gradient_map.get(gradient_type, RadialGradiantColorMask)
MaskClass(gradient_type) ==
    CASE gradient_type = "radial" -> "RadialGradiantColorMask"
      [] gradient_type = "square" -> "SquareGradiantColorMask"
      [] gradient_type = "horizontal" -> "HorizontalGradiantColorMask"
      [] gradient_type = "vertical" -> "VerticalGradiantColorMask"
      [] OTHER -> "RadialGradiantColorMask"

Mask(cls, start, end, rgb) ==
    [cls |-> cls, back_color |-> White, start |-> start, start_color |-> Black,
     end |-> end, end_color |-> rgb]

\* the if/elif chain that constructs color_mask
ColorMask(gradient_type, rgb) ==
    LET cls == MaskClass(gradient_type)
    IN  IF gradient_type \in {"radial", "square"}
        THEN Mask(cls, "center_color", "edge_color", rgb)
        ELSE IF gradient_type = "horizontal"
        THEN Mask(cls, "left_color", "right_color", rgb)
        ELSE IF gradient_type = "vertical"
        THEN Mask(cls, "top_color", "bottom_color", rgb)
        ELSE Mask(cls, "center_color", "edge_color", rgb)

\* The side of the rendered canvas in pixels: a version v symbol has
\* 4 v + 17 modules a side, and the quiet zone adds Border on each side.
CanvasSide(v, box) == (4 * v + 17 + 2 * Border) * box

\* Python truthiness of logo_path
Truthy(path) == path # None /\ path # ""

(***************************************************************************)
(* main and generate_qr_with_logo: the steps                               *)
(***************************************************************************)
\* main: the command line parsed and accepted, generate_qr_with_logo
\* entered and its lookup tables built.
MainCall ==
    /\ pc = "start"
    /\ \E a \in CliArgs : args' = a
    /\ caller' = "main"
    /\ box_size' = BoxSize(args'.size)
    /\ pc' = "gen_make"
    /\ UNCHANGED <<files, version, module_drawer, color_rgb, color_mask, img, heap,
                   ovVars, trace, error, ioVars, colorVars>>

\* main: argparse rejects a token outside the choices of --style,
\* --gradient-type or --size: usage on the error stream, exit code 2.
MainUsageError ==
    /\ pc = "start"
    /\ \E a \in ApiArgs \ CliArgs : args' = a
    /\ caller' = "main"
    /\ stderr' = Append(stderr, "usage")
    /\ exit_code' = 2
    /\ pc' = "exited"
    /\ UNCHANGED <<files, genVars, heap, ovVars, trace, error, output_file, stdout,
                   colorVars>>

\* generate_qr_with_logo called by other code than main.
ApiCall ==
    /\ pc = "start"
    /\ \E a \in ApiArgs : args' = a
    /\ caller' = "api"
    /\ box_size' = BoxSize(args'.size)
    /\ pc' = "gen_make"
    /\ UNCHANGED <<files, version, module_drawer, color_rgb, color_mask, img, heap,
                   ovVars, trace, error, ioVars, colorVars>>

\* qr = QRCode(...); qr.add_data(data); qr.make(fit=True): the encoder
\* settles on a version, or raises when the data fits none.
GenMake ==
    /\ pc = "gen_make"
    /\ \/ /\ \E v \in 1..MaxVersion : version' = v
          /\ trace' = Append(trace, "GridReady")
          /\ pc' = "gen_style"
          /\ error' = error
       \/ /\ Raise("DataOverflowError")
          /\ UNCHANGED <<version, trace>>
    /\ UNCHANGED <<caller, args, files, box_size, module_drawer, color_rgb,
                   color_mask, img, heap, ovVars, ioVars, colorVars>>

GenStyle ==
    /\ pc = "gen_style"
    /\ module_drawer' = StyleDrawer(args.style)
    /\ pc' = "gen_color"
    /\ UNCHANGED <<caller, args, files, box_size, version, color_rgb, color_mask,
                   img, heap, ovVars, trace, error, ioVars, colorVars>>

\* try: color_rgb = parse_color(gradient_color)
\* except (ValueError, IndexError): print(...); color_rgb = (0, 0, 0)
GenColor ==
    /\ pc = "gen_color"
    /\ LET res == parse_color(args.gradient_color)
       IN  IF res.ok
           THEN /\ color_rgb' = res.rgb
                /\ stdout' = stdout
           ELSE /\ color_rgb' = Black
                /\ stdout' = Append(stdout, "Invalid color format")
    /\ pc' = "gen_mask"
    /\ UNCHANGED <<caller, args, files, box_size, version, module_drawer, color_mask,
                   img, heap, ovVars, trace, error, output_file, stderr, exit_code,
                   colorVars>>

GenMask ==
    /\ pc = "gen_mask"
    /\ color_mask' = ColorMask(args.gradient_type, color_rgb)
    /\ pc' = "gen_make_image"
    /\ UNCHANGED <<caller, args, files, box_size, version, module_drawer, color_rgb,
                   img, heap, ovVars, trace, error, ioVars, colorVars>>

\* GenMakeImage writing the canvas to output_path as soon as it is rendered
GenMakeImageSaving ==
    /\ pc = "gen_make_image"
    /\ \/ /\ heap' = [heap EXCEPT !["canvas"] =
                        [w |-> CanvasSide(version, box_size),
                         h |-> CanvasSide(version, box_size),
                         base |-> "checker", ops |-> <<>>]]
          /\ img' = "canvas"
          /\ output_file' = [state |-> "complete", image |-> heap'["canvas"]]
          /\ trace' = Append(trace, "ModulesRendered")
          /\ pc' = "gen_logo"
          /\ error' = error
       \/ /\ Raise("RenderError")
          /\ UNCHANGED <<heap, img, trace, output_file>>
    /\ UNCHANGED <<caller, args, files, box_size, version, module_drawer, color_rgb,
                   color_mask, ovVars, stdout, stderr, exit_code, colorVars>>

\* img = qr.make_image(...): every module drawn on a new canvas, or the
\* renderer raises.
GenMakeImage ==
    /\ pc = "gen_make_image"
    /\ \/ /\ heap' = [heap EXCEPT !["canvas"] =
                        [w |-> CanvasSide(version, box_size),
                         h |-> CanvasSide(version, box_size),
                         base |-> "checker", ops |-> <<>>]]
          /\ img' = "canvas"
          /\ trace' = Append(trace, "ModulesRendered")
          /\ pc' = "gen_logo"
          /\ error' = error
       \/ /\ Raise("RenderError")
          /\ UNCHANGED <<heap, img, trace>>
    /\ UNCHANGED <<caller, args, files, box_size, version, module_drawer, color_rgb,
                   color_mask, ovVars, ioVars, colorVars>>

\* GenLogo never calling overlay_logo_on_qr
GenLogoSkipping ==
    /\ pc = "gen_logo"
    /\ pc' = "gen_save"
    /\ UNCHANGED <<caller, args, files, genVars, heap, ovVars, trace, error, ioVars,
                   colorVars>>

\* if logo_path: img = overlay_logo_on_qr(img, logo_path, logo_gap)
\* (the call; OvReturn is the assignment)
GenLogo ==
    /\ pc = "gen_logo"
    /\ IF Truthy(args.logo_path)
       THEN /\ qr_img' = img
            /\ qr_img0' = heap[img]
            /\ pc' = "ov_open"
       ELSE /\ pc' = "gen_save"
            /\ UNCHANGED <<qr_img, qr_img0>>
    /\ UNCHANGED <<caller, args, files, genVars, heap, qr_with_logo, logo, logo_size,
                   pos, trace, error, ioVars, colorVars>>

\* img.save(output_path); print(...).  A failed save leaves what the
\* imaging library leaves: nothing, or a truncated file.
GenSave ==
    /\ pc = "gen_save"
    /\ \/ /\ output_file' = [state |-> "complete", image |-> heap[img]]
          /\ trace' = Append(trace, "Serialized")
          /\ stdout' = Append(stdout, "QR code saved")
          /\ pc' = IF caller = "main" THEN "main_returned" ELSE "api_returned"
          /\ error' = error
       \/ /\ \E st \in {"absent", "partial"} :
                output_file' = [state |-> st, image |-> NoImage]
          /\ Raise("OSError")
          /\ UNCHANGED <<trace, stdout>>
    /\ UNCHANGED <<caller, args, files, genVars, heap, ovVars, stderr, exit_code,
                   colorVars>>

\* except Exception as e: print(f"Error generating QR code: {e}"); sys.exit(1)
MainExcept ==
    /\ pc = "main_except"
    /\ stdout' = Append(stdout, "Error generating QR code")
    /\ exit_code' = 1
    /\ pc' = "exited"
    /\ UNCHANGED <<caller, args, files, genVars, heap, ovVars, trace, error,
                   output_file, stderr, colorVars>>

\* main returns and the interpreter exits with code 0
MainReturn ==
    /\ pc = "main_returned"
    /\ exit_code' = 0
    /\ pc' = "exited"
    /\ UNCHANGED <<caller, args, files, genVars, heap, ovVars, trace, error,
                   output_file, stdout, stderr, colorVars>>

(***************************************************************************)
(* overlay_logo_on_qr: the steps                                           *)
(***************************************************************************)
\* overlay_logo_on_qr called by other code than generate_qr_with_logo, on
\* a canvas of any size.
OverlayCall ==
    /\ pc = "start"
    /\ \E c \in SmallCanvases, g \in 0..MaxGap :
          /\ heap' = [heap EXCEPT !["canvas"] = c]
          /\ qr_img0' = c
          /\ args' = [NoArgs EXCEPT !.logo_path = "logo.png", !.logo_gap = g]
    /\ caller' = "direct"
    /\ qr_img' = "canvas"
    /\ pc' = "ov_open"
    /\ UNCHANGED <<files, genVars, qr_with_logo, logo, logo_size, pos, trace, error,
                   ioVars, colorVars>>

\* logo = Image.open(logo_path)
OvOpen ==
    /\ pc = "ov_open"
    /\ IF args.logo_path \in DOMAIN files
       THEN /\ logo' = files[args.logo_path]
            /\ pc' = "ov_size"
            /\ error' = error
       ELSE /\ Raise("FileNotFoundError")
            /\ logo' = logo
    /\ UNCHANGED <<caller, args, files, genVars, heap, qr_img, qr_with_logo,
                   logo_size, pos, qr_img0, trace, ioVars, colorVars>>

\* logo_size = min(qr_width, qr_height) // 4, less 2 * logo_gap if logo_gap > 0
OvSize ==
    /\ pc = "ov_size"
    /\ logo_size' = LogoBox(heap[qr_img].w, heap[qr_img].h, args.logo_gap)
    /\ pc' = "ov_thumbnail"
    /\ UNCHANGED <<caller, args, files, genVars, heap, qr_img, qr_with_logo, logo,
                   pos, qr_img0, trace, error, ioVars, colorVars>>

\* logo.thumbnail((logo_size, logo_size), Image.LANCZOS): resizes the logo
\* in place; a size that is not positive makes the imaging library raise.
OvThumbnail ==
    /\ pc = "ov_thumbnail"
    /\ IF logo_size > 0
       THEN /\ LET sz == ThumbnailSize(logo.w, logo.h, logo_size)
               IN  logo' = [logo EXCEPT !.w = sz[1], !.h = sz[2]]
            /\ pc' = "ov_position"
            /\ error' = error
       ELSE /\ Raise("ValueError")
            /\ logo' = logo
    /\ UNCHANGED <<caller, args, files, genVars, heap, qr_img, qr_with_logo,
                   logo_size, pos, qr_img0, trace, ioVars, colorVars>>

OvPosition ==
    /\ pc = "ov_position"
    /\ pos' = Centre(heap[qr_img].w, heap[qr_img].h, logo.w, logo.h)
    /\ pc' = "ov_copy"
    /\ UNCHANGED <<caller, args, files, genVars, heap, qr_img, qr_with_logo, logo,
                   logo_size, qr_img0, trace, error, ioVars, colorVars>>

\* OvCopy binding qr_with_logo to the canvas itself, not to a copy of it
OvCopyAliasing ==
    /\ pc = "ov_copy"
    /\ qr_with_logo' = qr_img
    /\ pc' = "ov_border"
    /\ UNCHANGED <<caller, args, files, genVars, heap, qr_img, logo, logo_size, pos,
                   qr_img0, trace, error, ioVars, colorVars>>

\* qr_with_logo = qr_img.copy()
OvCopy ==
    /\ pc = "ov_copy"
    /\ heap' = [heap EXCEPT !["copy"] = heap[qr_img]]
    /\ qr_with_logo' = "copy"
    /\ pc' = "ov_border"
    /\ UNCHANGED <<caller, args, files, genVars, qr_img, logo, logo_size, pos,
                   qr_img0, trace, error, ioVars, colorVars>>

\* if logo_gap > 0: ImageDraw.Draw(qr_with_logo).rectangle(border_rect, fill="white")
OvBorder ==
    /\ pc = "ov_border"
    /\ IF args.logo_gap > 0
       THEN heap' = [heap EXCEPT ![qr_with_logo] =
                        Draw(@, RectOp(BorderRect(pos, logo.w, logo.h, args.logo_gap)))]
       ELSE heap' = heap
    /\ pc' = "ov_paste"
    /\ UNCHANGED <<caller, args, files, genVars, qr_img, qr_with_logo, logo,
                   logo_size, pos, qr_img0, trace, error, ioVars, colorVars>>

\* qr_with_logo.paste(logo, (x, y), logo) if logo.mode == 'RGBA'
\* else qr_with_logo.paste(logo, (x, y))
OvPaste ==
    /\ pc = "ov_paste"
    /\ heap' = [heap EXCEPT ![qr_with_logo] = Draw(@, PasteOp(logo, pos))]
    /\ pc' = "ov_return"
    /\ UNCHANGED <<caller, args, files, genVars, qr_img, qr_with_logo, logo,
                   logo_size, pos, qr_img0, trace, error, ioVars, colorVars>>

\* return qr_with_logo; in generate_qr_with_logo the result is bound to img
OvReturn ==
    /\ pc = "ov_return"
    /\ IF caller = "direct"
       THEN /\ pc' = "ov_returned"
            /\ UNCHANGED <<img, trace>>
       ELSE /\ img' = qr_with_logo
            /\ trace' = Append(trace, "LogoApplied")
            /\ pc' = "gen_save"
    /\ UNCHANGED <<caller, args, files, box_size, version, module_drawer, color_rgb,
                   color_mask, heap, ovVars, error, ioVars, colorVars>>

(***************************************************************************)
(* parse_color applied to color_str                                        *)
(***************************************************************************)
ParseColor ==
    /\ pc = "start"
    /\ color_res' = parse_color(color_str)
    /\ pc' = "parsed"
    /\ UNCHANGED <<caller, args, files, genVars, heap, ovVars, trace, error, ioVars,
                   color_str>>

(***************************************************************************)
(* Specifications                                                          *)
(***************************************************************************)
Next ==
    \/ MainCall \/ MainUsageError \/ ApiCall
    \/ GenMake \/ GenStyle \/ GenColor \/ GenMask \/ GenMakeImage \/ GenLogo
    \/ OvOpen \/ OvSize \/ OvThumbnail \/ OvPosition
    \/ OvCopy \/ OvBorder \/ OvPaste \/ OvReturn
    \/ GenSave \/ MainExcept \/ MainReturn

Spec == Init /\ [][Next]_vars

NextOverlay ==
    \/ OverlayCall
    \/ OvOpen \/ OvSize \/ OvThumbnail \/ OvPosition
    \/ OvCopy \/ OvBorder \/ OvPaste \/ OvReturn

SpecOverlay == InitOverlay /\ [][NextOverlay]_vars

NextColor == ParseColor

SpecColor == InitColor /\ [][NextColor]_vars

(***************************************************************************)
(* Claims about parse_color                                                *)
(***************************************************************************)
\* s with one leading '#' removed, if it has one
Body(s) == IF s # <<>> /\ Head(s) = "#" THEN Tail(s) ELSE s

\* s is RRGGBB or #RRGGBB
WellFormed(s) ==
    /\ Len(Body(s)) = 6
    /\ \A k \in 1..6 : Body(s)[k] \in DOMAIN HexValue

ByteOf(hi, lo) == 16 * HexValue[hi] + HexValue[lo]

\* C5: for every string of exactly six hexadecimal digits, with or without
\* one leading '#', parse_color returns the values of its three digit
\* pairs, each in 0..255; "#FF00AA" gives (255, 0, 170) and "00FF00" gives
\* (0, 255, 0).
C5_ParseColorCorrect ==
    pc = "parsed" /\ WellFormed(color_str) =>
        LET b == Body(color_str) IN
        /\ color_res.ok
        /\ color_res.rgb = <<ByteOf(b[1], b[2]), ByteOf(b[3], b[4]), ByteOf(b[5], b[6])>>
        /\ \A k \in 1..3 : color_res.rgb[k] \in 0..255
        /\ (color_str = <<"#", "F", "F", "0", "0", "A", "A">>
               => color_res.rgb = <<255, 0, 170>>)
        /\ (color_str = <<"0", "0", "F", "F", "0", "0">>
               => color_res.rgb = <<0, 255, 0>>)

C5_Witness ==
    /\ pc = "parsed"
    /\ color_str = <<"#", "F", "a", "0", "0", "A", "A">>
    /\ color_res = [ok |-> TRUE, rgb |-> <<250, 0, 170>>]

(***************************************************************************)
(* Claims about main and generate_qr_with_logo                             *)
(***************************************************************************)
IsPrefix(s, t) == Len(s) <= Len(t) /\ s = SubSeq(t, 1, Len(s))

Did(step) == \E k \in 1..Len(trace) : trace[k] = step

LogoConfigured == Truthy(args.logo_path)

\* C1: the render steps occur in the order GridReady, ModulesRendered,
\* LogoApplied, Serialized, each at most once; LogoApplied is executed
\* exactly when a logo is configured and skipped exactly when none is, and
\* Serialized is never reached before ModulesRendered.
C1_StepOrder ==
    /\ \/ IsPrefix(trace, <<"GridReady", "ModulesRendered", "LogoApplied", "Serialized">>)
       \/ IsPrefix(trace, <<"GridReady", "ModulesRendered", "Serialized">>)
    /\ (Did("LogoApplied") => LogoConfigured)
    /\ (Did("Serialized") => (Did("LogoApplied") <=> LogoConfigured))
    /\ (Did("Serialized") => Did("ModulesRendered"))
    /\ (pc = "gen_save" /\ LogoConfigured => Did("LogoApplied"))

C1_Witness ==
    /\ pc = "exited"
    /\ LogoConfigured
    /\ trace = <<"GridReady", "ModulesRendered", "LogoApplied", "Serialized">>

\* C2: when a step before the save fails (the encoder, the renderer, the
\* logo), nothing is written to output_path; output_path is written only
\* after every preceding step has succeeded.
C2_NoOutputOnFailure ==
    /\ (error \in {"DataOverflowError", "RenderError", "FileNotFoundError", "ValueError"}
           => output_file.state = "absent" /\ ~Did("Serialized"))
    /\ (output_file.state # "absent"
           => /\ Did("GridReady") /\ Did("ModulesRendered")
              /\ (LogoConfigured => Did("LogoApplied")))
    /\ (output_file.state = "complete"
           => /\ error = "none"
              /\ output_file.image = heap[img])

C2_Witness ==
    /\ pc = "exited"
    /\ error = "FileNotFoundError"
    /\ trace = <<"GridReady", "ModulesRendered">>
    /\ output_file.state = "absent"

Printed(stream, msg) == \E k \in 1..Len(stream) : stream[k] = msg

\* C3: main exits with code 0 when generate_qr_with_logo completes, and
\* for every failure generate_qr_with_logo raises it exits with code 1
\* after a message on the error stream, not on standard output.
C3_ExitCodes ==
    pc = "exited" /\ caller = "main" =>
        /\ (Did("Serialized") => exit_code = 0)
        /\ (error # "none" =>
               /\ exit_code = 1
               /\ Printed(stderr, "Error generating QR code")
               /\ ~Printed(stdout, "Error generating QR code"))

\* C4: for every gradient_color that is not RRGGBB or #RRGGBB, black is
\* used as the gradient colour and a warning is printed, and the render
\* goes on.
C4_MalformedColorIsBlack ==
    pc = "gen_mask" /\ ~WellFormed(args.gradient_color) =>
        /\ color_rgb = Black
        /\ Printed(stdout, "Invalid color format")
        /\ error = "none"

\* C8: an unknown style token gets the drawer of style "rounded" (Rounded
\* with radius ratio 0.5); an unknown gradient_type token gets the Radial
\* mask from black at the centre to the parsed colour at the edge.
C8_UnknownTokens ==
    pc = "gen_make_image" =>
        /\ (args.style \notin Styles
               => module_drawer = [cls |-> "RoundedModuleDrawer", radius_ratio |-> "0.5"])
        /\ (args.gradient_type \notin GradientTypes
               => color_mask = [cls |-> "RadialGradiantColorMask", back_color |-> White,
                                start |-> "center_color", start_color |-> Black,
                                end |-> "edge_color", end_color |-> color_rgb])
        /\ error = "none"

(***************************************************************************)
(* Claims about overlay_logo_on_qr                                         *)
(***************************************************************************)
Canvas == heap[qr_img]
Result == heap[qr_with_logo]
Quarter == Min(Canvas.w, Canvas.h) \div 4

\* C6: for a fixed canvas the logo bounding size does not grow with the
\* gap, and it is positive when it is handed to the resize step.
C6_LogoSizeMonotoneAndPositive ==
    pc = "ov_thumbnail" =>
        /\ \A g \in 0..args.logo_gap :
              logo_size <= LogoBox(Canvas.w, Canvas.h, g)
        /\ logo_size > 0

\* the pixels of the canvas inside border_rect, both corners included
InRect(r, i, j) == r[1] <= i /\ i <= r[3] /\ r[2] <= j /\ j <= r[4]

InLogo(i, j) ==
    /\ pos[1] <= i /\ i < pos[1] + logo.w
    /\ pos[2] <= j /\ j < pos[2] + logo.h

\* [x - gap, y - gap, x + logoWidth + gap, y + logoHeight + gap]
GapRect ==
    <<pos[1] - args.logo_gap, pos[2] - args.logo_gap,
      pos[1] + logo.w + args.logo_gap, pos[2] + logo.h + args.logo_gap>>

FloorCentred ==
    /\ 2 * pos[1] <= Canvas.w - logo.w /\ Canvas.w - logo.w <= 2 * pos[1] + 1
    /\ 2 * pos[2] <= Canvas.h - logo.h /\ Canvas.h - logo.h <= 2 * pos[2] + 1

Kinds(im) == [k \in 1..Len(im.ops) |-> im.ops[k].kind]

\* C7: with logo_gap > 0 a white rectangle covering GapRect is painted on
\* the rendered modules before the logo is pasted, so that afterwards every
\* pixel of GapRect is white or a logo pixel; with logo_gap = 0 no
\* rectangle is painted and the pixels outside the logo are unchanged.
C7_BackingRectangle ==
    /\ pc = "ov_paste" /\ args.logo_gap > 0 =>
          /\ FloorCentred
          /\ Kinds(Result) = <<"rect">>
          /\ \A i \in 0..(Canvas.w - 1), j \in 0..(Canvas.h - 1) :
                InRect(GapRect, i, j) => Pixel(Result, i, j) = "white"
    /\ pc \in {"ov_return", "ov_returned"} /\ args.logo_gap > 0 =>
          /\ Kinds(Result) = <<"rect", "paste">>
          /\ \A i \in 0..(Canvas.w - 1), j \in 0..(Canvas.h - 1) :
                /\ InRect(GapRect, i, j) => Pixel(Result, i, j) \in {"white", "logo"}
                /\ Pixel(Result, i, j) = "logo" => InLogo(i, j)
    /\ pc \in {"ov_paste", "ov_return", "ov_returned"} /\ args.logo_gap = 0 =>
          /\ FloorCentred
          /\ \A k \in 1..Len(Result.ops) : Result.ops[k].kind # "rect"
          /\ \A i \in 0..(Canvas.w - 1), j \in 0..(Canvas.h - 1) :
                ~InLogo(i, j) => Pixel(Result, i, j) = Pixel(qr_img0, i, j)

\* a returned image where the rectangle has erased a module pixel next to
\* a logo that has transparent pixels
C7_Witness ==
    /\ pc = "ov_returned"
    /\ args.logo_gap > 0
    /\ logo.mode = "RGBA"
    /\ \E i \in 0..(Canvas.w - 1), j \in 0..(Canvas.h - 1) :
          /\ InRect(GapRect, i, j) /\ ~InLogo(i, j)
          /\ Pixel(qr_img0, i, j) = "module"
          /\ Pixel(Result, i, j) = "white"

\* C9: overlay_logo_on_qr never modifies the canvas it is given, whatever
\* the logo, the gap and the outcome; the rectangle and the logo are
\* written to a copy, which is the image returned.
C9_CanvasUntouched ==
    pc # "start" =>
        /\ heap["canvas"] = qr_img0
        /\ qr_img = "canvas"
        /\ (pc \in {"ov_border", "ov_paste", "ov_return", "ov_returned"}
               => qr_with_logo = "copy")

C9_Witness ==
    /\ pc = "ov_returned"
    /\ args.logo_gap > 0
    /\ Len(heap["copy"].ops) = 2
    /\ heap["canvas"] = qr_img0
    /\ \E i \in 0..(Canvas.w - 1), j \in 0..(Canvas.h - 1) :
          Pixel(heap["copy"], i, j) # Pixel(heap["canvas"], i, j)

\* C10: for every canvas and every logo_gap > 0, also one so large that the
\* reduced box is zero or negative, the resized logo with its gap fits the
\* quarter box and GapRect lies within the canvas.
C10_FootprintInsideBox ==
    /\ args.logo_gap > 0 /\ pc = "ov_raised" => error # "ValueError"
    /\ args.logo_gap > 0 /\ pc \in {"ov_position", "ov_copy", "ov_border",
                                    "ov_paste", "ov_return", "ov_returned"} =>
          /\ logo.w + 2 * args.logo_gap <= Quarter
          /\ logo.h + 2 * args.logo_gap <= Quarter
    /\ args.logo_gap > 0 /\ pc \in {"ov_copy", "ov_border", "ov_paste",
                                    "ov_return", "ov_returned"} =>
          /\ GapRect[1] >= 0 /\ GapRect[2] >= 0
          /\ GapRect[3] <= Canvas.w /\ GapRect[4] <= Canvas.h
====
